---------------------------- MODULE Spec2Model ----------------------------
(***************************************************************************)
(* A model of two components of the repository:                            *)
(*                                                                         *)
(*   - the Agrawal stream generator (creme/datasets/synth/agrawal.py): its *)
(*     rejection loop with the balancing toggle, the perturbation of the   *)
(*     accepted draw, the ten classification functions and generate_drift; *)
(*   - do_naive_bayes_prediction (river/tree/_tree_utils.py).              *)
(*                                                                         *)
(* Numbers.  The generator's real-valued fields (salary, commission,       *)
(* hvalue, loan) are kept in fixed point: a stored value v stands for the  *)
(* real v / Scale.  A uniform draw rand() is k / GridSize for some k in    *)
(* 0 .. GridSize-1 and the perturbation magnitude is p / PertDen for some  *)
(* p in 0 .. PertDen, so with Scale = GridSize * PertDen every sum,        *)
(* product and comparison the code makes is exact in the model.  age,      *)
(* elevel, car, zipcode and hyears are integers in the code (np.round      *)
(* returns an integral value) and are stored as such.                      *)
(***************************************************************************)
EXTENDS Integers, Sequences, FiniteSets, TLC

VARIABLES gen, twin, nb

vars == <<gen, twin, nb>>

(***************************************************************************)
(* Bounds of the model.                                                    *)
(***************************************************************************)
\* rand() takes the values k / GridSize, k in 0 .. GridSize-1
GridSize == 3
\* the perturbation magnitude takes the values p / PertDen, p in 0 .. PertDen
PertDen == 1
\* pulls made by the consumer
MaxSamples == 2
Scale == GridSize * PertDen

\* the real number n in fixed point
R(n) == n * Scale

\* the value "not assigned" of a local variable of __iter__
Unset == 0 - 1

(***************************************************************************)
(* The pseudorandom source (numpy RandomState).                            *)
(***************************************************************************)
\* self._rng.rand(): a uniform real in [0, 1), in fixed point
rand == {k * PertDen : k \in 0 .. (GridSize - 1)}

\* self._rng.randint(n): a uniform integer in [0, n)
randint(n) == 0 .. (n - 1)

\* the lowest, the middle and the highest outcome of randint(n)
Lowest(n) == 0
Middle(n) == n \div 2
Highest(n) == n - 1

(***************************************************************************)
(* The ten classification functions, on the fixed-point values.            *)
(***************************************************************************)
int(b) == IF b THEN 1 ELSE 0

classification_function_0(salary, commission, age, elevel, car, zipcode, hvalue, hyears, loan) ==
    int((age < 40) \/ (60 <= age))

classification_function_1(salary, commission, age, elevel, car, zipcode, hvalue, hyears, loan) ==
    IF age < 40 THEN int((R(50000) <= salary) /\ (salary <= R(100000)))
    ELSE IF age < 60 THEN int((R(75000) <= salary) /\ (salary <= R(125000)))
    ELSE int((R(25000) <= salary) /\ (salary <= R(75000)))

\* the last branch returns int(...) or (elevel == 4): 1, True or False, which
\* compare equal to 1, 1 and 0
classification_function_2(salary, commission, age, elevel, car, zipcode, hvalue, hyears, loan) ==
    IF age < 40 THEN int((elevel = 0) \/ (elevel = 1))
    ELSE IF age < 60 THEN int((elevel = 1) \/ (elevel = 2) \/ (elevel = 3))
    ELSE int((int((elevel = 2) \/ (elevel = 3)) = 1) \/ (elevel = 4))

classification_function_3(salary, commission, age, elevel, car, zipcode, hvalue, hyears, loan) ==
    IF age < 40 THEN
        IF (elevel = 0) \/ (elevel = 1)
        THEN int((R(25000) <= salary) /\ (salary <= R(75000)))
        ELSE int((R(50000) <= salary) /\ (salary <= R(100000)))
    ELSE IF age < 60 THEN
        IF (elevel = 1) \/ (elevel = 2) \/ (elevel = 3)
        THEN int((R(50000) <= salary) /\ (salary <= R(100000)))
        ELSE int((R(75000) <= salary) /\ (salary <= R(125000)))
    ELSE
        IF (elevel = 2) \/ (elevel = 3) \/ (elevel = 4)
        THEN int((R(50000) <= salary) /\ (salary <= R(100000)))
        ELSE int((R(25000) <= salary) /\ (salary <= R(75000)))

\* function 4 with the salary tested in all six branches
classification_function_4_salary_only(salary, commission, age, elevel, car, zipcode, hvalue, hyears, loan) ==
    IF age < 40 THEN
        IF (R(50000) <= salary) /\ (salary <= R(100000))
        THEN int((R(200000) <= salary) /\ (salary <= R(300000)))
        ELSE int((R(200000) <= salary) /\ (salary <= R(400000)))
    ELSE IF age < 60 THEN
        IF (R(75000) <= salary) /\ (salary <= R(125000))
        THEN int((R(200000) <= salary) /\ (salary <= R(400000)))
        ELSE int((R(300000) <= salary) /\ (salary <= R(500000)))
    ELSE
        IF (R(25000) <= salary) /\ (salary <= R(75000))
        THEN int((R(300000) <= salary) /\ (salary <= R(500000)))
        ELSE int((R(200000) <= salary) /\ (salary <= R(300000)))

classification_function_4(salary, commission, age, elevel, car, zipcode, hvalue, hyears, loan) ==
    IF age < 40 THEN
        IF (R(50000) <= salary) /\ (salary <= R(100000))
        THEN int((R(100000) <= loan) /\ (loan <= R(300000)))
        ELSE int((R(200000) <= salary) /\ (salary <= R(400000)))
    ELSE IF age < 60 THEN
        IF (R(75000) <= salary) /\ (salary <= R(125000))
        THEN int((R(200000) <= salary) /\ (loan <= R(400000)))
        ELSE int((R(300000) <= salary) /\ (salary <= R(500000)))
    ELSE
        IF (R(25000) <= salary) /\ (salary <= R(75000))
        THEN int((R(300000) <= loan) /\ (loan <= R(500000)))
        ELSE int((R(75000) <= loan) /\ (loan <= R(300000)))

classification_function_5(salary, commission, age, elevel, car, zipcode, hvalue, hyears, loan) ==
    LET totalsalary == salary + commission
    IN  IF age < 40 THEN int((R(50000) <= totalsalary) /\ (totalsalary <= R(100000)))
        ELSE IF age < 60 THEN int((R(75000) <= totalsalary) /\ (totalsalary <= R(125000)))
        ELSE int((R(25000) <= totalsalary) /\ (totalsalary <= R(75000)))

\* disposable = 2 * (salary + commission) / 3 - loan / 5 - 20000, times 15
classification_function_6(salary, commission, age, elevel, car, zipcode, hvalue, hyears, loan) ==
    LET disposable15 == 10 * (salary + commission) - 3 * loan - R(300000)
    IN  IF disposable15 > R(15) THEN 0 ELSE 1

\* disposable = 2 * (salary + commission) / 3 - 5000 * elevel - 20000, times 3
classification_function_7(salary, commission, age, elevel, car, zipcode, hvalue, hyears, loan) ==
    LET disposable3 == 2 * (salary + commission) - R(15000 * elevel) - R(60000)
    IN  IF disposable3 > R(3) THEN 0 ELSE 1

\* disposable = 2 * (salary + commission) / 3 - 5000 * elevel - loan / 5 - 10000,
\* times 15
classification_function_8(salary, commission, age, elevel, car, zipcode, hvalue, hyears, loan) ==
    LET disposable15 == 10 * (salary + commission) - R(75000 * elevel) - 3 * loan - R(150000)
    IN  IF disposable15 > R(15) THEN 0 ELSE 1

\* equity = hvalue * (hyears - 20) / 10 when hyears >= 20, else 0;
\* disposable = 2 * (salary + commission) / 3 - 5000 * elevel + equity / 5 - 10000,
\* times 150
classification_function_9(salary, commission, age, elevel, car, zipcode, hvalue, hyears, loan) ==
    LET equity10 == IF hyears >= 20 THEN hvalue * (hyears - 20) ELSE 0
        disposable150 == 100 * (salary + commission) - R(750000 * elevel)
                            + 3 * equity10 - R(1500000)
    IN  IF disposable150 > R(150) THEN 0 ELSE 1

\* self._classification_functions[i](salary, ..., loan)
classification_functions(i, salary, commission, age, elevel, car, zipcode, hvalue, hyears, loan) ==
    CASE i = 0 -> classification_function_0(salary, commission, age, elevel, car, zipcode, hvalue, hyears, loan)
      [] i = 1 -> classification_function_1(salary, commission, age, elevel, car, zipcode, hvalue, hyears, loan)
      [] i = 2 -> classification_function_2(salary, commission, age, elevel, car, zipcode, hvalue, hyears, loan)
      [] i = 3 -> classification_function_3(salary, commission, age, elevel, car, zipcode, hvalue, hyears, loan)
      [] i = 4 -> classification_function_4(salary, commission, age, elevel, car, zipcode, hvalue, hyears, loan)
      [] i = 5 -> classification_function_5(salary, commission, age, elevel, car, zipcode, hvalue, hyears, loan)
      [] i = 6 -> classification_function_6(salary, commission, age, elevel, car, zipcode, hvalue, hyears, loan)
      [] i = 7 -> classification_function_7(salary, commission, age, elevel, car, zipcode, hvalue, hyears, loan)
      [] i = 8 -> classification_function_8(salary, commission, age, elevel, car, zipcode, hvalue, hyears, loan)
      [] i = 9 -> classification_function_9(salary, commission, age, elevel, car, zipcode, hvalue, hyears, loan)


(***************************************************************************)
(* The generator.  gen is one Agrawal instance together with the frame of  *)
(* its __iter__: the attributes classification_function, balance_classes,  *)
(* perturbation (the numerator p of p / PertDen), rng,                     *)
(* next_class_should_be_zero, sample_idx and current_sample_y, the locals  *)
(* salary .. loan and group, the local new_function of generate_drift, and *)
(* pc, the place where the instance stands:                                *)
(*    "idle"   suspended, no sample handed over and not yet consumed       *)
(*    "loop"   inside the rejection loop (lines 127-150)                   *)
(*    "p_salary", "p_age", "p_hyears"  before line 153, 156, 158           *)
(*    "yield"  suspended at line 169, the locals being the record x        *)
(*    "drift"  inside generate_drift (lines 186-189)                       *)
(* The locals are Unset wherever the code cannot read them before it       *)
(* assigns them again: a rejected draw is discarded, and the record is     *)
(* dropped when the consumer makes its next call.  rejected tells whether  *)
(* the pull in progress has discarded a draw.                              *)
(***************************************************************************)
\* seed=None, the default of __init__ (a seed is a non-negative integer)
NoSeed == Unset

\* check_random_state(seed): a RandomState seeded by an integer seed produces
\* the stream of that seed; without a seed the process-wide source is used,
\* whose stream depends on the entropy it was started from
check_random_state(seed, entropy) ==
    IF seed = NoSeed THEN [kind |-> "global", stream |-> entropy]
    ELSE [kind |-> "seeded", stream |-> seed]

\* line 119 with the seed forgotten
init_rng_unseeded(seed, entropy) == check_random_state(NoSeed, entropy)

\* line 119: self._rng = check_random_state(seed)
init_rng(seed, entropy) == check_random_state(seed, entropy)

\* the locals of __iter__ without a value
drop_locals(g) ==
    [g EXCEPT !.salary = Unset, !.commission = Unset, !.age = Unset,
              !.elevel = Unset, !.car = Unset, !.zipcode = Unset,
              !.hvalue = Unset, !.hyears = Unset, !.loan = Unset,
              !.group = Unset]

\* Agrawal.__init__, for arguments that pass its two range checks
Agrawal(classification_function, seed, balance_classes, perturbation, entropy) ==
    [classification_function |-> classification_function,
     balance_classes |-> balance_classes,
     perturbation |-> perturbation,
     rng |-> init_rng(seed, entropy),
     next_class_should_be_zero |-> FALSE,
     sample_idx |-> 0,
     current_sample_y |-> Unset,
     new_function |-> Unset,
     rejected |-> FALSE,
     pc |-> "idle",
     salary |-> Unset, commission |-> Unset, age |-> Unset, elevel |-> Unset,
     car |-> Unset, zipcode |-> Unset, hvalue |-> Unset, hyears |-> Unset,
     loan |-> Unset, group |-> Unset]

\* the arguments __init__ accepts (lines 98 and 103)
ValidFunctions == 0 .. 9
ValidPerturbations == 0 .. PertDen

Suspended(g) == g.pc \in {"idle", "yield"}

\* lines 124-126: the consumer pulls, the generator resumes
resume(g) ==
    [drop_locals(g) EXCEPT !.sample_idx = @ + 1, !.rejected = FALSE, !.pc = "loop"]

\* the test of lines 147-148 with the two classes exchanged
desired_class_exchanged(next_class_should_be_zero, group) ==
    (next_class_should_be_zero /\ (group = 1))
        \/ ((~next_class_should_be_zero) /\ (group = 0))

\* lines 147-148, the test that accepts a draw when balancing
desired_class(next_class_should_be_zero, group) ==
    (next_class_should_be_zero /\ (group = 0))
        \/ ((~next_class_should_be_zero) /\ (group = 1))

\* line 129 as the docstring's table words it: no commission below 75000
draw_commission_as_documented(salary, u) ==
    IF salary < R(75000) THEN 0 ELSE R(10000) + 75000 * u

\* line 129
draw_commission(salary, u) ==
    IF salary >= R(75000) THEN 0 ELSE R(10000) + 75000 * u

\* the draws of one pass of the rejection loop: a value of rand() or of
\* randint(n) for each of lines 128-136.  The age takes the lowest, the middle
\* and the highest outcome (one in each age bracket of the classification
\* functions); elevel, car, zipcode and hyears take their lowest outcomes
\* together or their highest outcomes together.
Draws ==
    {[salary |-> us, commission |-> uc, age |-> a,
      elevel |-> IF high THEN Highest(5) ELSE Lowest(5),
      car |-> IF high THEN Highest(20) ELSE Lowest(20),
      zipcode |-> IF high THEN Highest(9) ELSE Lowest(9),
      hvalue |-> uh,
      hyears |-> IF high THEN Highest(30) ELSE Lowest(30),
      loan |-> ul] :
        us \in rand, uc \in rand, uh \in rand, ul \in rand,
        a \in {Lowest(61), Middle(61), Highest(61)}, high \in BOOLEAN}

\* lines 128-136: the nine raw values made of the draws d
raw(d) ==
    LET salary == R(20000) + 130000 * d.salary
        zipcode == d.zipcode
    IN  [salary |-> salary,
         commission |-> draw_commission(salary, d.commission),
         age |-> 20 + d.age,
         elevel |-> d.elevel,
         car |-> d.car,
         zipcode |-> zipcode,
         hvalue |-> (9 - zipcode) * 50000 * (Scale + 2 * d.hvalue),
         hyears |-> 1 + d.hyears,
         loan |-> d.loan * 500000]

\* lines 137-143: the group of the raw values x under the function in force
group_of(classification_function, x) ==
    classification_functions(classification_function, x.salary, x.commission,
        x.age, x.elevel, x.car, x.zipcode, x.hvalue, x.hyears, x.loan)

\* lines 144-149: desired_class_found
desired_class_found(balance_classes, next_class_should_be_zero, group) ==
    IF ~balance_classes THEN TRUE
    ELSE desired_class(next_class_should_be_zero, group)

\* lines 128-150: one pass of the rejection loop with the draws d
attempt(g, d) ==
    LET x == raw(d)
        group == group_of(g.classification_function, x)
    IN  IF desired_class_found(g.balance_classes, g.next_class_should_be_zero, group)
        THEN [g EXCEPT !.salary = x.salary, !.commission = x.commission,
                       !.age = x.age, !.elevel = x.elevel, !.car = x.car,
                       !.zipcode = x.zipcode, !.hvalue = x.hvalue,
                       !.hyears = x.hyears, !.loan = x.loan,
                       !.group = group,
                       !.next_class_should_be_zero =
                           IF g.balance_classes THEN ~@ ELSE @,
                       !.rejected = FALSE,
                       !.current_sample_y =
                           IF g.perturbation > 0 THEN @ ELSE group,
                       !.pc = IF g.perturbation > 0 THEN "p_salary" ELSE "yield"]
        ELSE [g EXCEPT !.rejected = TRUE]

\* np.round of a non-negative fixed-point value: the nearest integer, a tie
\* going to the even one
round(v) ==
    LET q == v \div Scale
        r == v % Scale
    IN  IF 2 * r < Scale THEN q
        ELSE IF 2 * r > Scale THEN q + 1
        ELSE IF q % 2 = 0 THEN q ELSE q + 1

\* the clamp without its lower test
clamp_upper_only(val, val_min, val_max) ==
    IF val > val_max THEN val_max ELSE val

\* lines 175-179, the clamp of _perturb_value
clamp(val, val_min, val_max) ==
    IF val < val_min THEN val_min
    ELSE IF val > val_max THEN val_max
    ELSE val

\* lines 171-179: _perturb_value(val, val_min, val_max, val_range) with u the
\* value of self._rng.rand(); val, val_min and val_max are fixed-point values,
\* val_range is the plain number, perturbation the numerator of the magnitude
perturb_value(val, val_min, val_max, val_range, u, perturbation) ==
    clamp(val + (val_range * (2 * u - Scale) * perturbation) \div PertDen,
          val_min, val_max)

\* line 153
perturb_salary(g, u) ==
    [g EXCEPT !.salary = perturb_value(@, R(20000), R(150000), 150000 - 20000,
                                       u, g.perturbation),
              !.pc = "p_commission"]

\* lines 154-155
perturb_commission(g, u) ==
    [g EXCEPT !.commission =
                  IF @ > 0
                  THEN perturb_value(@, R(10000), R(75000), 75000 - 10000,
                                     u, g.perturbation)
                  ELSE @,
              !.pc = "p_age"]

\* line 156
perturb_age(g, u) ==
    [g EXCEPT !.age = round(perturb_value(R(@), R(20), R(80), 80 - 20,
                                          u, g.perturbation)),
              !.pc = "p_hvalue"]

\* line 157: val_min is (9 - zipcode) * 100000, val_max is 0 and val_range is
\* 135000
perturb_hvalue(g, u) ==
    [g EXCEPT !.hvalue = perturb_value(@, R((9 - g.zipcode) * 100000), R(0),
                                       135000, u, g.perturbation),
              !.pc = "p_hyears"]

\* line 158
perturb_hyears(g, u) ==
    [g EXCEPT !.hyears = round(perturb_value(R(@), R(1), R(30), 30 - 1,
                                             u, g.perturbation)),
              !.pc = "p_loan"]

\* line 159, then lines 161-169: the record is assembled and yielded
perturb_loan(g, u) ==
    [g EXCEPT !.loan = perturb_value(@, R(0), R(500000), 500000 - 0,
                                     u, g.perturbation),
              !.current_sample_y = g.group,
              !.pc = "yield"]

\* the consumer calls generate_drift()
generate_drift(g) ==
    [drop_locals(g) EXCEPT !.pc = "drift"]

\* lines 186-189 without the loop: the first index drawn is taken
drift_no_loop(g, n) ==
    IF g.new_function = Unset
    THEN [g EXCEPT !.new_function = n]
    ELSE [g EXCEPT !.classification_function = g.new_function,
                   !.new_function = Unset, !.pc = "idle"]

\* lines 186-189: the first draw, then the test of the loop and a new draw,
\* or the assignment
drift_loop(g, n) ==
    IF g.new_function = Unset
    THEN [g EXCEPT !.new_function = n]
    ELSE IF g.new_function = g.classification_function
    THEN [g EXCEPT !.new_function = n]
    ELSE [g EXCEPT !.classification_function = g.new_function,
                   !.new_function = Unset, !.pc = "idle"]

\* lines 153-155 with the two values u of rand()
perturb_salary_commission(g, u) == perturb_commission(perturb_salary(g, u[1]), u[2])

\* lines 156-157
perturb_age_hvalue(g, u) == perturb_hvalue(perturb_age(g, u[1]), u[2])

\* lines 158-169
perturb_hyears_loan(g, u) == perturb_loan(perturb_hyears(g, u[1]), u[2])

(***************************************************************************)
(* One generator and its consumer.  The draws are any values the source    *)
(* can produce: the generator is built without a seed, or with any seed.   *)
(***************************************************************************)
NoGenerator == [pc |-> "none"]
NoPrediction == [pc |-> "none"]

Init ==
    /\ \E f \in ValidFunctions, b \in BOOLEAN, p \in ValidPerturbations :
           gen = Agrawal(f, NoSeed, b, p, 0)
    /\ twin = NoGenerator
    /\ nb = NoPrediction

\* next(iterator): lines 124-126
Pull ==
    /\ Suspended(gen)
    /\ gen.sample_idx < MaxSamples
    /\ gen' = resume(gen)
    /\ UNCHANGED <<twin, nb>>

\* lines 128-150
Attempt ==
    /\ gen.pc = "loop"
    /\ \E d \in Draws : gen' = attempt(gen, d)
    /\ UNCHANGED <<twin, nb>>

\* lines 153-155
PerturbSalaryCommission ==
    /\ gen.pc = "p_salary"
    /\ \E u \in rand \X rand : gen' = perturb_salary_commission(gen, u)
    /\ UNCHANGED <<twin, nb>>

\* lines 156-157
PerturbAgeHvalue ==
    /\ gen.pc = "p_age"
    /\ \E u \in rand \X rand : gen' = perturb_age_hvalue(gen, u)
    /\ UNCHANGED <<twin, nb>>

\* lines 158-169
PerturbHyearsLoan ==
    /\ gen.pc = "p_hyears"
    /\ \E u \in rand \X rand : gen' = perturb_hyears_loan(gen, u)
    /\ UNCHANGED <<twin, nb>>

GenerateDrift ==
    /\ Suspended(gen)
    /\ gen' = generate_drift(gen)
    /\ UNCHANGED <<twin, nb>>

DriftLoop ==
    /\ gen.pc = "drift"
    /\ \E n \in randint(10) : gen' = drift_loop(gen, n)
    /\ UNCHANGED <<twin, nb>>

Next ==
    \/ Pull
    \/ Attempt
    \/ PerturbSalaryCommission
    \/ PerturbAgeHvalue
    \/ PerturbHyearsLoan
    \/ GenerateDrift
    \/ DriftLoop

Spec == Init /\ [][Next]_vars

(***************************************************************************)
(* Fair draws.  The consumer may stop pulling at any time; the generator,  *)
(* once resumed or called, runs on.  An outcome of the draws that is       *)
(* possible at every pass of a loop is eventually drawn: one of the draws  *)
(* that the rejection loop accepts, and an index other than the current    *)
(* one in generate_drift.                                                  *)
(***************************************************************************)
\* the draws that end the rejection loop (lines 144-149) of a generator with
\* function f, balance flag b and toggle z
AcceptedDraws ==
    [f \in ValidFunctions, b \in BOOLEAN, z \in BOOLEAN |->
        {d \in Draws : desired_class_found(b, z, group_of(f, raw(d)))}]

AcceptedAttempt ==
    /\ gen.pc = "loop"
    /\ LET ds == AcceptedDraws[gen.classification_function, gen.balance_classes,
                               gen.next_class_should_be_zero]
       IN  /\ ds # {}
           /\ gen' = attempt(gen, CHOOSE d \in ds : TRUE)
    /\ UNCHANGED <<twin, nb>>

OtherFunctionDrawn ==
    /\ gen.pc = "drift"
    /\ \E n \in randint(10) :
           gen' = drift_loop(gen, n) /\ gen'.new_function # gen.classification_function
    /\ UNCHANGED <<twin, nb>>

Fairness ==
    /\ WF_vars(AcceptedAttempt)
    /\ WF_vars(OtherFunctionDrawn)

\* The perturbation acts after the rejection loop has ended (line 152) and in
\* straight-line code; the generators here are built with perturbation 0.0,
\* for which lines 153-159 are skipped.
LiveInit ==
    /\ \E f \in ValidFunctions, b \in BOOLEAN : gen = Agrawal(f, NoSeed, b, 0, 0)
    /\ twin = NoGenerator
    /\ nb = NoPrediction

LiveNext ==
    \/ Pull
    \/ Attempt
    \/ GenerateDrift
    \/ DriftLoop

LiveSpec == LiveInit /\ [][LiveNext]_vars /\ Fairness

(***************************************************************************)
(* Two generators built with the same arguments and driven by the same     *)
(* sequence of calls.  Two sources in the same state make the same draws;  *)
(* the generators being in the same state, rng included, their sources     *)
(* are.                                                                    *)
(***************************************************************************)
\* the seed of the docstring's example
Seed == 42

SameSource == gen = twin

PairInit ==
    /\ \E f \in ValidFunctions, b \in BOOLEAN, p \in ValidPerturbations :
           /\ gen = Agrawal(f, Seed, b, p, 1)
           /\ twin = Agrawal(f, Seed, b, p, 2)
    /\ nb = NoPrediction

PairPull ==
    /\ Suspended(gen) /\ Suspended(twin)
    /\ gen.sample_idx < MaxSamples /\ twin.sample_idx < MaxSamples
    /\ gen' = resume(gen)
    /\ twin' = resume(twin)
    /\ UNCHANGED nb

PairAttempt ==
    /\ gen.pc = "loop" /\ twin.pc = "loop"
    /\ \E d1 \in Draws : \E d2 \in (IF SameSource THEN {d1} ELSE Draws) :
           /\ gen' = attempt(gen, d1)
           /\ twin' = attempt(twin, d2)
    /\ UNCHANGED nb

PairPerturbSalaryCommission ==
    /\ gen.pc = "p_salary" /\ twin.pc = "p_salary"
    /\ \E u1 \in rand \X rand : \E u2 \in (IF SameSource THEN {u1} ELSE rand \X rand) :
           /\ gen' = perturb_salary_commission(gen, u1)
           /\ twin' = perturb_salary_commission(twin, u2)
    /\ UNCHANGED nb

PairPerturbAgeHvalue ==
    /\ gen.pc = "p_age" /\ twin.pc = "p_age"
    /\ \E u1 \in rand \X rand : \E u2 \in (IF SameSource THEN {u1} ELSE rand \X rand) :
           /\ gen' = perturb_age_hvalue(gen, u1)
           /\ twin' = perturb_age_hvalue(twin, u2)
    /\ UNCHANGED nb

PairPerturbHyearsLoan ==
    /\ gen.pc = "p_hyears" /\ twin.pc = "p_hyears"
    /\ \E u1 \in rand \X rand : \E u2 \in (IF SameSource THEN {u1} ELSE rand \X rand) :
           /\ gen' = perturb_hyears_loan(gen, u1)
           /\ twin' = perturb_hyears_loan(twin, u2)
    /\ UNCHANGED nb

PairGenerateDrift ==
    /\ Suspended(gen) /\ Suspended(twin)
    /\ gen' = generate_drift(gen)
    /\ twin' = generate_drift(twin)
    /\ UNCHANGED nb

PairDriftLoop ==
    /\ gen.pc = "drift" /\ twin.pc = "drift"
    /\ \E n1 \in randint(10) : \E n2 \in (IF SameSource THEN {n1} ELSE randint(10)) :
           /\ gen' = drift_loop(gen, n1)
           /\ twin' = drift_loop(twin, n2)
    /\ UNCHANGED nb

PairNext ==
    \/ PairPull
    \/ PairAttempt
    \/ PairPerturbSalaryCommission
    \/ PairPerturbAgeHvalue
    \/ PairPerturbHyearsLoan
    \/ PairGenerateDrift
    \/ PairDriftLoop

PairSpec == PairInit /\ [][PairNext]_vars

(***************************************************************************)
(* Properties of the generator.                                            *)
(***************************************************************************)
Yielded == gen.pc = "yield"

\* C1: with balance_classes enabled the n-th sample yielded has label n mod 2,
\* whatever the classification function is and however many generate_drift()
\* calls were made in between: the labels are 1, 0, 1, 0, ..., so they strictly
\* alternate, the first one is 1, and in every prefix the counts of the two
\* labels differ by at most 1.
C1_BalancedLabelsAlternate ==
    (gen.pc # "none" /\ gen.balance_classes /\ Yielded)
        => gen.current_sample_y = gen.sample_idx % 2

\* a second sample of a balanced stream, its label 0
C1_Witness ==
    /\ gen.pc = "yield"
    /\ gen.balance_classes
    /\ gen.sample_idx = 2
    /\ gen.current_sample_y = 0

\* C2: every generate_drift() call returns with a classification-function
\* index in 0 .. 9 that differs from the index before the call.
C2_DriftChangesFunction ==
    [][(gen.pc = "drift" /\ gen'.pc = "idle")
          => /\ gen'.classification_function # gen.classification_function
             /\ gen'.classification_function \in 0 .. 9]_vars

\* generate_drift() has returned after two samples were pulled
C2_Witness ==
    /\ gen.pc = "idle"
    /\ gen.sample_idx = 2
    /\ gen.classification_function \in 0 .. 9

IntegerFieldsInRange ==
    /\ 20 <= gen.age /\ gen.age <= 80
    /\ 0 <= gen.elevel /\ gen.elevel < 5
    /\ 0 <= gen.car /\ gen.car < 20
    /\ 0 <= gen.zipcode /\ gen.zipcode < 9
    /\ 1 <= gen.hyears /\ gen.hyears <= 30

C7_Function4DecidesByLoan ==
    (gen.pc = "yield" /\ gen.perturbation = 0 /\ gen.classification_function = 4)
        => \A v \in {0, 1} : \E u \in rand :
               classification_function_4(gen.salary, gen.commission, gen.age,
                   gen.elevel, gen.car, gen.zipcode, gen.hvalue, gen.hyears,
                   u * 500000) = v

\* the noise bound of a field: val_range times the perturbation magnitude, in
\* fixed point
NoiseBound(val_range) == val_range * gen.perturbation * GridSize

Abs(v) == IF v < 0 THEN 0 - v ELSE v

\* C8: each statement of lines 153-159 leaves its field within
\* range * magnitude of the value drawn (plus 0.5 for the rounded age and
\* hyears), range being hi - lo of the clamp bounds and 135000 for hvalue.
C8_PerturbationWithinNoiseBound ==
    [][/\ gen.pc = "p_salary"
          => /\ Abs(gen'.salary - gen.salary) <= NoiseBound(150000 - 20000)
             /\ Abs(gen'.commission - gen.commission) <= NoiseBound(75000 - 10000)
       /\ gen.pc = "p_age"
          => /\ 2 * Abs(R(gen'.age) - R(gen.age)) <= 2 * NoiseBound(80 - 20) + Scale
             /\ Abs(gen'.hvalue - gen.hvalue) <= NoiseBound(135000)
       /\ gen.pc = "p_hyears"
          => /\ 2 * Abs(R(gen'.hyears) - R(gen.hyears)) <= 2 * NoiseBound(30 - 1) + Scale
             /\ Abs(gen'.loan - gen.loan) <= NoiseBound(500000 - 0)]_vars

\* what a generator shows: where it stands, the record and the label it
\* yields, and its function index, toggle and sample counter
Shown(g) ==
    [pc |-> g.pc, salary |-> g.salary, commission |-> g.commission, age |-> g.age,
     elevel |-> g.elevel, car |-> g.car, zipcode |-> g.zipcode, hvalue |-> g.hvalue,
     hyears |-> g.hyears, loan |-> g.loan, y |-> g.current_sample_y,
     classification_function |-> g.classification_function,
     next_class_should_be_zero |-> g.next_class_should_be_zero,
     sample_idx |-> g.sample_idx]

C10_PullsAndDriftsTerminate ==
    /\ (gen.pc = "loop") ~> (gen.pc = "yield")
    /\ (gen.pc = "drift") ~> (gen.pc = "idle")

\* a balanced pull that has discarded a draw, after a generate_drift() call
\* made between the first and the second pull
C10_Witness ==
    /\ gen.pc = "loop"
    /\ gen.balance_classes
    /\ gen.rejected
    /\ gen.sample_idx = 2
    /\ gen.next_class_should_be_zero

(***************************************************************************)
(* do_naive_bayes_prediction.  The code works on logarithms; the model     *)
(* keeps, for every log-score v the code holds, the positive rational      *)
(* exp(v) as a fraction <<numerator, denominator>> in lowest terms:        *)
(* math.log(q) is kept as q, a sum of logarithms as the product, 0.0 as 1, *)
(* and math.exp(v - w) as the quotient.  The order of two scores is the    *)
(* order of their fractions.                                               *)
(***************************************************************************)
\* prior weights are 0 .. MaxWeight
MaxWeight == 2
\* an observer answers k / LikDen, k in 0 .. LikDen
LikDen == 2

Classes == {0, 1, 2}
Attributes == {"salary", "age"}

RECURSIVE Gcd(_, _)
Gcd(a, b) == IF b = 0 THEN a ELSE Gcd(b, a % b)

Frac(n, d) == LET k == Gcd(n, d) IN <<n \div k, d \div k>>
FracMul(p, q) == Frac(p[1] * q[1], p[2] * q[2])
FracDiv(p, q) == Frac(p[1] * q[2], p[2] * q[1])
FracAdd(p, q) == Frac(p[1] * q[2] + q[1] * p[2], p[2] * q[2])
FracLess(p, q) == p[1] * q[2] < q[1] * p[2]
FracOne == <<1, 1>>
FracZero == <<0, 1>>

\* sum(observed_class_distribution.values())
RECURSIVE sum(_)
sum(dist) ==
    IF DOMAIN dist = {} THEN 0
    ELSE LET c == CHOOSE k \in DOMAIN dist : TRUE
         IN  dist[c] + sum([k \in (DOMAIN dist) \ {c} |-> dist[k]])

\* the classes with a positive weight only
positive_classes(dist) == {c \in DOMAIN dist : dist[c] > 0}

\* line 35: the loop gives every class of the distribution an entry of votes
scored_classes(dist) == DOMAIN dist

\* line 52: votes[class_index] += math.log(tmp) if tmp > 0 else 0.0, for an
\* answer tmp = k / LikDen
add_log_likelihood(vote, k) ==
    IF k > 0 THEN FracMul(vote, Frac(k, LikDen)) ELSE FracMul(vote, FracOne)

\* lines 43-52 for one class: the observers whose attribute is in x, in turn
RECURSIVE accumulate(_, _, _, _)
accumulate(vote, atts, lik, class_index) ==
    IF atts = {} THEN vote
    ELSE LET att_idx == CHOOSE a \in atts : TRUE
         IN  accumulate(add_log_likelihood(vote, lik[att_idx][class_index]),
                        atts \ {att_idx}, lik, class_index)

\* lines 35-52: the log-score of one class
class_vote(x, dist, attribute_observers, lik, total_weight, class_index) ==
    IF dist[class_index] > 0
    THEN accumulate(Frac(dist[class_index], total_weight),
                    attribute_observers \cap x, lik, class_index)
    ELSE FracOne

\* max(votes.values())
RECURSIVE max(_)
max(votes) ==
    LET c == CHOOSE k \in DOMAIN votes : TRUE
        rest == [k \in (DOMAIN votes) \ {c} |-> votes[k]]
    IN  IF DOMAIN rest = {} THEN votes[c]
        ELSE LET m == max(rest)
             IN  IF FracLess(votes[c], m) THEN m ELSE votes[c]

\* sum(math.exp(log_proba - max_ll) for log_proba in votes.values())
RECURSIVE sum_exp(_, _)
sum_exp(votes, max_ll) ==
    IF DOMAIN votes = {} THEN FracZero
    ELSE LET c == CHOOSE k \in DOMAIN votes : TRUE
         IN  FracAdd(FracDiv(votes[c], max_ll),
                     sum_exp([k \in (DOMAIN votes) \ {c} |-> votes[k]], max_ll))

\* the result None of line 32
NoVotes == [defined |-> FALSE, votes |-> <<>>]

\* lines 29-64.  x is the set of keys of the record, attribute_observers the
\* set of keys of the observers, lik[att][class] the answer of
\* obs.probability_of_attribute_value_given_class(x[att], class)
do_naive_bayes_prediction(x, observed_class_distribution, attribute_observers, lik) ==
    LET total_weight == sum(observed_class_distribution)
    IN  IF (DOMAIN observed_class_distribution = {}) \/ total_weight = 0
        THEN NoVotes
        ELSE LET votes == [class_index \in scored_classes(observed_class_distribution) |->
                              class_vote(x, observed_class_distribution,
                                         attribute_observers, lik, total_weight,
                                         class_index)]
                 max_ll == max(votes)
                 lse == FracMul(max_ll, sum_exp(votes, max_ll))
             IN  [defined |-> TRUE,
                  votes |-> [class_index \in DOMAIN votes |->
                                FracDiv(votes[class_index], lse)]]

\* the class distributions: any weights 0 .. MaxWeight on any set of classes
ClassDistributions ==
    UNION {[cs -> 0 .. MaxWeight] : cs \in SUBSET Classes}

NBInit ==
    /\ gen = NoGenerator
    /\ twin = NoGenerator
    /\ \E x \in SUBSET Attributes, dist \in ClassDistributions,
          obs \in SUBSET Attributes :
           nb = [pc |-> "call", x |-> x, observed_class_distribution |-> dist,
                 attribute_observers |-> obs, lik |-> <<>>, result |-> NoVotes]

\* one call, the observers answering lik
Predict ==
    /\ nb.pc = "call"
    /\ \E lik \in [nb.attribute_observers \cap nb.x -> [Classes -> 0 .. LikDen]] :
           nb' = [nb EXCEPT !.pc = "done", !.lik = lik,
                            !.result = do_naive_bayes_prediction(
                                nb.x, nb.observed_class_distribution,
                                nb.attribute_observers, lik)]
    /\ UNCHANGED <<gen, twin>>

NBNext == Predict

NBSpec == NBInit /\ [][NBNext]_vars

ZeroWeightClasses == {c \in DOMAIN nb.observed_class_distribution :
                         nb.observed_class_distribution[c] = 0}
PositiveWeightClasses == {c \in DOMAIN nb.observed_class_distribution :
                             nb.observed_class_distribution[c] > 0}

\* C6: the call returns None exactly when the class distribution is empty or
\* its weights sum to zero; otherwise it returns a mapping whose keys are the
\* keys of the distribution, the zero-weight classes included.
C6_NoneIffNoWeight ==
    nb.pc = "done"
        => /\ (~nb.result.defined)
                <=> (DOMAIN nb.observed_class_distribution = {}
                        \/ sum(nb.observed_class_distribution) = 0)
           /\ nb.result.defined
                => DOMAIN nb.result.votes = DOMAIN nb.observed_class_distribution

\* a posterior over a distribution with a zero-weight class, with an observer
\* consulted
C6_Witness ==
    /\ nb.pc = "done"
    /\ nb.result.defined
    /\ ZeroWeightClasses # {}
    /\ nb.attribute_observers \cap nb.x # {}
    /\ DOMAIN nb.result.votes = DOMAIN nb.observed_class_distribution

\* C9: when the prior has a class of positive weight and a class of weight
\* zero (and every likelihood lies in [0, 1]), the posterior of each
\* zero-weight class is strictly smaller than that of some positive-weight
\* class, so a zero-weight class is never the class of maximum posterior.
C9_ZeroWeightClassBelowBest ==
    (nb.pc = "done" /\ nb.result.defined)
        => \A z \in ZeroWeightClasses : \E c \in PositiveWeightClasses :
               FracLess(nb.result.votes[z], nb.result.votes[c])

=============================================================================
